---- MODULE Spec2Model ----
(***************************************************************************)
(* KowalskiFilterHandler (handlers/api/kowalski_filter.py): the four       *)
(* request handlers get / post / patch / delete.  Each one looks a Filter  *)
(* up in the database, scoped to the groups the current user can access,   *)
(* forwards one call to the remote Kowalski API and turns the reply into a *)
(* success or an error envelope.                                           *)
(***************************************************************************)
EXTENDS Integers, Sequences, FiniteSets, TLC

(***************************************************************************)
(* Bounds of the model.                                                    *)
(***************************************************************************)
MaxGroup == 2
MaxFilterId == 1

GroupIds == 1..MaxGroup
FilterIds == 1..MaxFilterId
\* the two alert streams (ZTF_alerts, ZUDS_alerts)
StreamIds == {1, 2}
\* path parameters: every id a Filter row can have, and one that no row has
PathIds == 1..(MaxFilterId + 1)

(***************************************************************************)
(* Python / JSON values, tagged by their type.  None is Python's None and  *)
(* JSON's null.                                                            *)
(***************************************************************************)
None == [t |-> "null"]
JBool(b) == [t |-> "bool", v |-> b]
JInt(n) == [t |-> "int", v |-> n]
JStr(s) == [t |-> "str", v |-> s]
JList(l) == [t |-> "list", v |-> l]

\* Python truthiness: bool(x), and the operand of `not x`
bool(x) ==
    CASE x.t = "null" -> FALSE
      [] x.t = "bool" -> x.v
      [] x.t = "int"  -> x.v # 0
      [] x.t = "str"  -> x.v # ""
      [] x.t = "list" -> Len(x.v) # 0

Digit(d) ==
    CASE d = 0 -> "0" [] d = 1 -> "1" [] d = 2 -> "2" [] d = 3 -> "3"
      [] d = 4 -> "4" [] d = 5 -> "5" [] d = 6 -> "6" [] d = 7 -> "7"
      [] d = 8 -> "8" [] d = 9 -> "9"

RECURSIVE Decimal(_)
Decimal(n) == IF n < 10 THEN Digit(n) ELSE Decimal(n \div 10) \o Digit(n % 10)

\* Python str(x) of a JSON scalar
str(x) ==
    CASE x.t = "str"  -> x.v
      [] x.t = "int"  -> IF x.v < 0 THEN "-" \o Decimal(0 - x.v) ELSE Decimal(x.v)
      [] x.t = "bool" -> IF x.v THEN "True" ELSE "False"
      [] x.t = "null" -> "None"

\* dict.get(key, None)
DictGet(d, key) == IF key \in DOMAIN d THEN d[key] ELSE None

(***************************************************************************)
(* The database: Filter and Stream rows.  Filter.id and Stream.id are      *)
(* primary keys; Filter.stream_id is a foreign key into Stream.            *)
(***************************************************************************)
AltDatas ==
    { [collection |-> JStr("ZTF_alerts"),  selector |-> JList(<<1, 2>>)],
      [collection |-> JStr("ZUDS_alerts"), selector |-> JList(<<3>>)] }

\* the tables the database can hold: at most one Filter row per id, each in
\* some group and on some stream; exactly one Stream row per stream id, no
\* two streams on the same collection
FilterTables ==
    UNION { { { [id |-> i, group_id |-> a[i][1], stream_id |-> a[i][2]] : i \in D } :
                a \in [D -> GroupIds \X StreamIds] } :
            D \in SUBSET FilterIds }

StreamTables ==
    { { [id |-> i, altdata |-> a[i]] : i \in StreamIds } :
        a \in { b \in [StreamIds -> AltDatas] :
                  \A i, j \in StreamIds : b[i] = b[j] => i = j } }

\* QueryFilter without the restriction to the caller's groups
QueryFilter_AnyGroup(filters, accessible_groups, filter_id) ==
    LET rows == { f \in filters : f.id = filter_id }
    IN  IF rows = {} THEN None ELSE CHOOSE f \in rows : TRUE

\* DBSession().query(Filter).filter(Filter.id == filter_id,
\*     Filter.group_id.in_([g.id for g in accessible_groups])).first()
QueryFilter(filters, accessible_groups, filter_id) ==
    LET rows == { f \in filters :
                    f.id = filter_id /\ f.group_id \in accessible_groups }
    IN  IF rows = {} THEN None ELSE CHOOSE f \in rows : TRUE

\* DBSession().query(Stream).filter(Stream.id == f.stream_id).first()
QueryStream(streams, stream_id) ==
    LET rows == { s \in streams : s.id = stream_id }
    IN  IF rows = {} THEN None ELSE CHOOSE s \in rows : TRUE

(***************************************************************************)
(* The envelopes of BaseHandler: self.success(data=...), self.success()    *)
(* and self.error(message).                                                *)
(***************************************************************************)
success(data) == [status |-> "success", data |-> data]
success_bare == [status |-> "success"]
error(message) == [status |-> "error", message |-> message]

(***************************************************************************)
(* The remote side.  kowalski.api(...) either returns a reply (a dict) or  *)
(* raises: the service is unreachable or its reply is not JSON.            *)
(***************************************************************************)
Raised == [exception |-> "kowalski.api"]

RemoteData == JStr("filter-doc")

Replies ==
    { [status |-> JStr("success"), message |-> JStr("ok"), data |-> RemoteData],
      [status |-> JStr("success")],
      [status |-> JStr("error"), message |-> JStr("not found"), data |-> RemoteData],
      [message |-> JStr("no status")] }

RemoteOutcomes == Replies \cup {Raised}

\* what a handler leaves behind: the envelope written (or the exception that
\* left the handler) and the remote calls it issued
Outcome(resp, calls) == [resp |-> resp, calls |-> calls]

InvalidFilterId == JStr("Invalid filter ID.")
MissingPipeline == JStr("Missing pipeline parameter")
AtLeastOne ==
    JStr("At least one of (active, active_fid, autosave, update_annotations) must be set")

(***************************************************************************)
(* get(filter_id)                                                          *)
(***************************************************************************)
get(filters, streams, accessible_groups, filter_id, data, remote) ==
    LET f == QueryFilter(filters, accessible_groups, filter_id)
        call == [method |-> "get",
                 endpoint |-> "api/filters/" \o Decimal(filter_id)]
    IN  IF f = None THEN Outcome(error(InvalidFilterId), <<>>)
        ELSE IF remote = Raised THEN Outcome(Raised, <<call>>)
        ELSE IF DictGet(remote, "status") = JStr("success")
             THEN Outcome(success(DictGet(remote, "data")), <<call>>)
             ELSE Outcome(error(DictGet(remote, "message")), <<call>>)

(***************************************************************************)
(* post(filter_id)                                                         *)
(***************************************************************************)
\* post that tests `pipeline is None` where the handler tests `not pipeline`
post_NoneOnly(filters, streams, accessible_groups, filter_id, data, remote) ==
    LET pipeline == DictGet(data, "pipeline")
        f == QueryFilter(filters, accessible_groups, filter_id)
    IN  IF pipeline = None THEN Outcome(error(MissingPipeline), <<>>)
        ELSE IF f = None THEN Outcome(error(InvalidFilterId), <<>>)
        ELSE
          LET stream == QueryStream(streams, f.stream_id)
              post_data ==
                  [group_id |-> f.group_id,
                   filter_id |-> filter_id,
                   catalog |-> stream.altdata["collection"],
                   permissions |-> stream.altdata["selector"],
                   pipeline |-> pipeline]
              call == [method |-> "post", endpoint |-> "api/filters",
                       data |-> post_data]
          IN  IF remote = Raised THEN Outcome(Raised, <<call>>)
              ELSE IF DictGet(remote, "status") = JStr("success")
                   THEN Outcome(success(DictGet(remote, "data")), <<call>>)
                   ELSE Outcome(error(DictGet(remote, "message")), <<call>>)

\* post that looks the Stream up by the path parameter, not by f.stream_id
post_StreamByFilterId(filters, streams, accessible_groups, filter_id, data, remote) ==
    LET pipeline == DictGet(data, "pipeline")
        f == QueryFilter(filters, accessible_groups, filter_id)
    IN  IF ~bool(pipeline) THEN Outcome(error(MissingPipeline), <<>>)
        ELSE IF f = None THEN Outcome(error(InvalidFilterId), <<>>)
        ELSE
          LET stream == QueryStream(streams, filter_id)
              post_data ==
                  [group_id |-> f.group_id,
                   filter_id |-> filter_id,
                   catalog |-> stream.altdata["collection"],
                   permissions |-> stream.altdata["selector"],
                   pipeline |-> pipeline]
              call == [method |-> "post", endpoint |-> "api/filters",
                       data |-> post_data]
          IN  IF remote = Raised THEN Outcome(Raised, <<call>>)
              ELSE IF DictGet(remote, "status") = JStr("success")
                   THEN Outcome(success(DictGet(remote, "data")), <<call>>)
                   ELSE Outcome(error(DictGet(remote, "message")), <<call>>)

post(filters, streams, accessible_groups, filter_id, data, remote) ==
    LET pipeline == DictGet(data, "pipeline")
        f == QueryFilter(filters, accessible_groups, filter_id)
    IN  IF ~bool(pipeline) THEN Outcome(error(MissingPipeline), <<>>)
        ELSE IF f = None THEN Outcome(error(InvalidFilterId), <<>>)
        ELSE
          LET stream == QueryStream(streams, f.stream_id)
          IN  IF stream = None THEN Outcome([exception |-> "AttributeError"], <<>>)
              ELSE
                LET post_data ==
                        [group_id |-> f.group_id,
                         filter_id |-> filter_id,
                         catalog |-> stream.altdata["collection"],
                         permissions |-> stream.altdata["selector"],
                         pipeline |-> pipeline]
                    call == [method |-> "post", endpoint |-> "api/filters",
                             data |-> post_data]
                IN  IF remote = Raised THEN Outcome(Raised, <<call>>)
                    ELSE IF DictGet(remote, "status") = JStr("success")
                         THEN Outcome(success(DictGet(remote, "data")), <<call>>)
                         ELSE Outcome(error(DictGet(remote, "message")), <<call>>)

(***************************************************************************)
(* patch(filter_id)                                                        *)
(***************************************************************************)
PatchFields == {"active", "active_fid", "autosave", "update_annotations"}

\* (active, active_fid, autosave, update_annotations).count(None)
CountNone(data) == Cardinality({ k \in PatchFields : DictGet(data, k) = None })

patch_data(filter_id, data) ==
    [ k \in {"filter_id"} \cup { k \in PatchFields : DictGet(data, k) # None } |->
        IF k = "filter_id" THEN filter_id
        ELSE IF k = "active_fid" THEN JStr(str(data[k]))
        ELSE JBool(bool(data[k])) ]

\* patch that tests `if status:` where the handler tests `status == "success"`
patch_AnyStatus(filters, streams, accessible_groups, filter_id, data, remote) ==
    LET f == QueryFilter(filters, accessible_groups, filter_id)
        call == [method |-> "patch", endpoint |-> "api/filters",
                 data |-> patch_data(filter_id, data)]
    IN  IF CountNone(data) < 1 THEN Outcome(error(AtLeastOne), <<>>)
        ELSE IF f = None THEN Outcome(error(InvalidFilterId), <<>>)
        ELSE IF remote = Raised THEN Outcome(Raised, <<call>>)
        ELSE IF bool(DictGet(remote, "status"))
             THEN Outcome(success(DictGet(remote, "data")), <<call>>)
             ELSE Outcome(error(DictGet(remote, "message")), <<call>>)

patch(filters, streams, accessible_groups, filter_id, data, remote) ==
    LET f == QueryFilter(filters, accessible_groups, filter_id)
        call == [method |-> "patch", endpoint |-> "api/filters",
                 data |-> patch_data(filter_id, data)]
    IN  IF CountNone(data) < 1 THEN Outcome(error(AtLeastOne), <<>>)
        ELSE IF f = None THEN Outcome(error(InvalidFilterId), <<>>)
        ELSE IF remote = Raised THEN Outcome(Raised, <<call>>)
        ELSE IF DictGet(remote, "status") = JStr("success")
             THEN Outcome(success(DictGet(remote, "data")), <<call>>)
             ELSE Outcome(error(DictGet(remote, "message")), <<call>>)

(***************************************************************************)
(* delete(filter_id)                                                       *)
(***************************************************************************)
\* delete that tells a Filter of another group from no Filter at all
delete_Leaky(filters, streams, accessible_groups, filter_id, data, remote) ==
    LET f == QueryFilter(filters, accessible_groups, filter_id)
        call == [method |-> "patch",
                 endpoint |-> "api/filters/" \o Decimal(filter_id)]
    IN  IF f = None
        THEN IF \E g \in filters : g.id = filter_id
             THEN Outcome(error(JStr("Insufficient permissions.")), <<>>)
             ELSE Outcome(error(InvalidFilterId), <<>>)
        ELSE IF remote = Raised THEN Outcome(Raised, <<call>>)
        ELSE IF DictGet(remote, "status") = JStr("success")
             THEN Outcome(success_bare, <<call>>)
             ELSE Outcome(error(DictGet(remote, "message")), <<call>>)

delete(filters, streams, accessible_groups, filter_id, data, remote) ==
    LET f == QueryFilter(filters, accessible_groups, filter_id)
        call == [method |-> "patch",
                 endpoint |-> "api/filters/" \o Decimal(filter_id)]
    IN  IF f = None THEN Outcome(error(InvalidFilterId), <<>>)
        ELSE IF remote = Raised THEN Outcome(Raised, <<call>>)
        ELSE IF DictGet(remote, "status") = JStr("success")
             THEN Outcome(success_bare, <<call>>)
             ELSE Outcome(error(DictGet(remote, "message")), <<call>>)

(***************************************************************************)
(* Request bodies.                                                         *)
(***************************************************************************)
Stage1 == "$match"
Stage2 == "$project"

PipelineValues ==
    { None, JList(<<>>), JList(<<Stage1>>), JList(<<Stage1, Stage2>>) }

PostBodies == UNION { [D -> PipelineValues] : D \in SUBSET {"pipeline"} }

FieldValues(k) ==
    CASE k = "active"             -> { None, JInt(0) }
      [] k = "active_fid"         -> { JStr("abc123"), JInt(123456) }
      [] k = "autosave"           -> { JBool(TRUE) }
      [] k = "update_annotations" -> { JStr("") }

PatchBodies ==
    UNION { { b \in [D -> UNION { FieldValues(k) : k \in PatchFields }] :
                \A k \in D : b[k] \in FieldValues(k) } :
            D \in SUBSET PatchFields }

NoBody == <<>>

(***************************************************************************)
(* State.                                                                  *)
(***************************************************************************)
VARIABLES
    Filter,             \* the Filter table
    Stream,             \* the Stream table
    pc,                 \* "idle": no request in progress; "done": handler returned
    method,             \* the handler that ran
    accessible_groups,  \* ids of self.current_user.accessible_groups
    filter_id,          \* the path parameter
    body,               \* self.get_json()
    response,           \* what kowalski.api did, NoCall when it was not called
    result,             \* the envelope written, or the exception raised
    calls               \* the calls made to kowalski.api by this request

vars == << Filter, Stream, pc, method, accessible_groups, filter_id, body,
           response, result, calls >>

NoCall == [called |-> FALSE]

Init ==
    /\ Filter \in FilterTables
    /\ Stream \in StreamTables
    /\ pc = "idle"
    /\ method = "none"
    /\ accessible_groups = {}
    /\ filter_id = 0
    /\ body = NoBody
    /\ response = NoCall
    /\ result = None
    /\ calls = <<>>

Handled(m, groups, fid, data, remote, out) ==
    /\ pc' = "done"
    /\ method' = m
    /\ accessible_groups' = groups
    /\ filter_id' = fid
    /\ body' = data
    /\ response' = IF out.calls = <<>> THEN NoCall ELSE remote
    /\ result' = out.resp
    /\ calls' = out.calls
    /\ UNCHANGED << Filter, Stream >>

Get ==
    /\ pc = "idle"
    /\ \E groups \in SUBSET GroupIds, fid \in PathIds, remote \in RemoteOutcomes :
         Handled("get", groups, fid, NoBody, remote,
                 get(Filter, Stream, groups, fid, NoBody, remote))

Post ==
    /\ pc = "idle"
    /\ \E groups \in SUBSET GroupIds, fid \in PathIds, data \in PostBodies,
          remote \in RemoteOutcomes :
         Handled("post", groups, fid, data, remote,
                 post(Filter, Stream, groups, fid, data, remote))

Patch ==
    /\ pc = "idle"
    /\ \E groups \in SUBSET GroupIds, fid \in PathIds, data \in PatchBodies,
          remote \in RemoteOutcomes :
         Handled("patch", groups, fid, data, remote,
                 patch(Filter, Stream, groups, fid, data, remote))

Delete ==
    /\ pc = "idle"
    /\ \E groups \in SUBSET GroupIds, fid \in PathIds, remote \in RemoteOutcomes :
         Handled("delete", groups, fid, NoBody, remote,
                 delete(Filter, Stream, groups, fid, NoBody, remote))

\* the request is over: the handler object and all it held are dropped
Finish ==
    /\ pc = "done"
    /\ pc' = "idle"
    /\ method' = "none"
    /\ accessible_groups' = {}
    /\ filter_id' = 0
    /\ body' = NoBody
    /\ response' = NoCall
    /\ result' = None
    /\ calls' = <<>>
    /\ UNCHANGED << Filter, Stream >>

Next == Get \/ Post \/ Patch \/ Delete \/ Finish

Spec == Init /\ [][Next]_vars

TypeOK ==
    /\ pc \in {"idle", "done"}
    /\ method \in {"none", "get", "post", "patch", "delete"}
    /\ accessible_groups \subseteq GroupIds
    /\ Filter \in FilterTables
    /\ Stream \in StreamTables

(***************************************************************************)
(* Vocabulary of the properties.                                           *)
(***************************************************************************)
\* the Filter rows the path parameter names
Named == { f \in Filter : f.id = filter_id }

\* the path parameter names a Filter of a group the caller can access
Authorized == \E f \in Named : f.group_id \in accessible_groups

\* the path parameter names a Filter, but of a group the caller cannot access
Inaccessible == Named # {} /\ ~Authorized

\* the fields of an Update body that carry a value
Supplied == { k \in PatchFields : k \in DOMAIN body /\ body[k] # None }

\* a Create body without a pipeline, or with an empty one
PipelineAbsentOrEmpty ==
    \/ "pipeline" \notin DOMAIN body
    \/ body["pipeline"] \in { None, JList(<<>>) }

Handle(m, filters, streams, groups, fid, data, remote) ==
    CASE m = "get"    -> get(filters, streams, groups, fid, data, remote)
      [] m = "post"   -> post(filters, streams, groups, fid, data, remote)
      [] m = "patch"  -> patch(filters, streams, groups, fid, data, remote)
      [] m = "delete" -> delete(filters, streams, groups, fid, data, remote)

(***************************************************************************)
(* C1: an invocation of any of the four operations whose filter identifier *)
(* does not resolve to a Filter of a group the caller can access issues no *)
(* call to the remote API.                                                 *)
(***************************************************************************)
C1_NoRemoteCallUnlessAuthorized ==
    (pc = "done" /\ ~Authorized) => calls = <<>>

C1_Witness ==
    /\ pc = "done" /\ method = "post" /\ Inaccessible
    /\ ~PipelineAbsentOrEmpty
    /\ accessible_groups # {}
    /\ calls = <<>>

(***************************************************************************)
(* C2: for a filter identifier not owned by an accessible group of the     *)
(* caller, every operation, whatever the body, returns the error envelope  *)
(* with message "Invalid filter ID.".                                      *)
(***************************************************************************)
C2_InvalidFilterIdWhateverTheBody ==
    (pc = "done" /\ ~Authorized) => result = error(InvalidFilterId)

\* What the handlers do instead: post and patch check the body before they
\* look the Filter up, so the body check's message comes first.
ErrorForUnauthorized ==
    (pc = "done" /\ ~Authorized) =>
        result = IF method = "post" /\ PipelineAbsentOrEmpty
                     THEN error(MissingPipeline)
                 ELSE IF method = "patch" /\ Supplied = PatchFields
                     THEN error(AtLeastOne)
                 ELSE error(InvalidFilterId)

(***************************************************************************)
(* C3: no existence leak.  The same invocation run against any database    *)
(* that differs from this one only in Filters of groups the caller cannot  *)
(* access, with the remote side behaving the same, writes the same         *)
(* envelope and issues the same remote calls as it did here.               *)
(***************************************************************************)
SameForCaller(F1, F2, groups) ==
    { f \in F1 : f.group_id \in groups } = { f \in F2 : f.group_id \in groups }

C3_NoExistenceLeak ==
    pc = "done" =>
        \A F2 \in FilterTables :
            SameForCaller(Filter, F2, accessible_groups) =>
                \A remote \in RemoteOutcomes :
                    response \in {NoCall, remote} =>
                        Handle(method, F2, Stream, accessible_groups,
                               filter_id, body, remote)
                          = Outcome(result, calls)

C3_Witness ==
    /\ pc = "done" /\ method = "delete" /\ Inaccessible
    /\ \E F2 \in FilterTables :
          /\ SameForCaller(Filter, F2, accessible_groups)
          /\ ~ \E f \in F2 : f.id = filter_id
    /\ result = error(InvalidFilterId)

(***************************************************************************)
(* C4: an Update whose body has none of the four optional fields returns   *)
(* the validation error "At least one of (...) must be set" and issues no  *)
(* remote call, for any filter identifier.                                 *)
(***************************************************************************)
C4_EmptyUpdateRejected ==
    (pc = "done" /\ method = "patch" /\ DOMAIN body = {}) =>
        (result = error(AtLeastOne) /\ calls = <<>>)

(***************************************************************************)
(* C5: an Update on an authorized filter with a non-empty set S of the     *)
(* four optional fields supplied issues exactly one remote PATCH to        *)
(* api/filters whose payload has exactly the keys {filter_id} union S:     *)
(* filter_id is the path parameter, the boolean fields are booleans and    *)
(* active_fid is a string.                                                 *)
(***************************************************************************)
C5_PayloadOK(payload) ==
    /\ DOMAIN payload = {"filter_id"} \cup Supplied
    /\ payload["filter_id"] = filter_id
    /\ \A k \in Supplied :
         IF k = "active_fid" THEN payload[k].t = "str" ELSE payload[k].t = "bool"

C5_UpdateForwardsSuppliedFields ==
    (pc = "done" /\ method = "patch" /\ Authorized /\ Supplied # {}) =>
        /\ Len(calls) = 1
        /\ calls[1].method = "patch"
        /\ calls[1].endpoint = "api/filters"
        /\ C5_PayloadOK(calls[1].data)

\* What the handler does: the payload is as C5 says when one, two or three
\* of the fields are supplied, and also when none is; with all four supplied
\* nothing is sent.
UpdateForwardsUnlessAllFour ==
    (pc = "done" /\ method = "patch" /\ Authorized) =>
        IF Supplied = PatchFields
        THEN calls = <<>> /\ result = error(AtLeastOne)
        ELSE /\ Len(calls) = 1
             /\ calls[1].method = "patch"
             /\ calls[1].endpoint = "api/filters"
             /\ C5_PayloadOK(calls[1].data)

(***************************************************************************)
(* C6: a Create whose body has an absent or empty pipeline, on a filter    *)
(* identifier that is accessible to the caller, returns the validation     *)
(* error "Missing pipeline parameter" and issues no remote call.           *)
(***************************************************************************)
C6_MissingPipelineRejected ==
    (pc = "done" /\ method = "post" /\ Authorized /\ PipelineAbsentOrEmpty) =>
        (result = error(MissingPipeline) /\ calls = <<>>)

C6_Witness ==
    /\ pc = "done" /\ method = "post" /\ Authorized
    /\ "pipeline" \in DOMAIN body /\ body["pipeline"] = JList(<<>>)
    /\ result = error(MissingPipeline)

(***************************************************************************)
(* C7: response normalization.  When the remote call got a reply, the      *)
(* envelope is a success envelope exactly when the remote status is        *)
(* "success".  On success Fetch, Create and Update carry the remote data   *)
(* unchanged and Deactivate carries no data field; otherwise the envelope  *)
(* is an error whose message is the remote message, with no data key.      *)
(***************************************************************************)
C7_ResponseNormalized ==
    (pc = "done" /\ response \in Replies) =>
        IF DictGet(response, "status") = JStr("success")
        THEN IF method = "delete"
             THEN result = [status |-> "success"]
             ELSE result = [status |-> "success",
                            data |-> DictGet(response, "data")]
        ELSE result = [status |-> "error",
                       message |-> DictGet(response, "message")]

C7_Witness ==
    /\ pc = "done" /\ method = "delete"
    /\ response \in Replies
    /\ DictGet(response, "status") = JStr("success")
    /\ "data" \in DOMAIN response
    /\ DOMAIN result = {"status"}

(***************************************************************************)
(* C8: a Create on an authorized filter with a non-empty pipeline issues   *)
(* exactly one remote POST to api/filters whose payload is the Filter's    *)
(* group_id, the path parameter as filter_id, the collection and selector  *)
(* of the Stream whose id is the Filter's stream_id as catalog and         *)
(* permissions, and the pipeline of the body unchanged.                    *)
(***************************************************************************)
C8_Expected(f, s) ==
    [method |-> "post", endpoint |-> "api/filters",
     data |-> [group_id |-> f.group_id,
               filter_id |-> filter_id,
               catalog |-> s.altdata["collection"],
               permissions |-> s.altdata["selector"],
               pipeline |-> body["pipeline"]]]

C8_CreateForwardsStreamAndPipeline ==
    (pc = "done" /\ method = "post" /\ Authorized /\ ~PipelineAbsentOrEmpty) =>
        \E f \in Named : \E s \in Stream :
            /\ s.id = f.stream_id
            /\ calls = << C8_Expected(f, s) >>

C8_Witness ==
    /\ pc = "done" /\ method = "post" /\ Authorized
    /\ Len(calls) = 1
    /\ \E f \in Named : f.stream_id # f.id
    /\ \E s1, s2 \in Stream : s1.altdata # s2.altdata
    /\ Len(body["pipeline"].v) = 2

(***************************************************************************)
(* C9: every invocation ends with a structured envelope, status "success"  *)
(* or "error"; a failure of the remote call at the transport level is      *)
(* caught in the handler and does not leave it as an exception.            *)
(***************************************************************************)
C9_AlwaysAnEnvelope ==
    pc = "done" =>
        /\ "status" \in DOMAIN result
        /\ result["status"] \in {"success", "error"}

(***************************************************************************)
(* C10: each invocation issues at most one remote call, and exactly one    *)
(* when the body is valid (a Create with a non-empty pipeline, an Update   *)
(* with at least one of the four fields) and the filter is authorized; the *)
(* Filter and Stream tables are left as they were.                         *)
(***************************************************************************)
BodyValid ==
    CASE method = "post"  -> ~PipelineAbsentOrEmpty
      [] method = "patch" -> Supplied # {}
      [] OTHER            -> TRUE

C10_OneCallPerValidRequest ==
    pc = "done" =>
        /\ Len(calls) <= 1
        /\ (BodyValid /\ Authorized) => Len(calls) = 1

\* the parts of C10 that do not depend on the body check
C10_AtMostOneCall == Len(calls) <= 1

C10_TablesUnchanged == [][Filter' = Filter /\ Stream' = Stream]_vars
====
